---- MODULE Spec2Model ----
(***************************************************************************)
(* Model of the image browser's safety-and-prediction subsystem:           *)
(* file locality classification, the tracked file list and its refresh,    *)
(* the download / slow-image confirmation dialogs, the image benchmarker   *)
(* and the capability aggregator / render-time estimator.                  *)
(*                                                                         *)
(* The attribute-bit platform (cfg(windows)) is the one modelled.          *)
(* f64 values are modelled as exact rationals <<num, den>> in lowest       *)
(* terms; Option<T> is modelled as a sequence of length 0 (None) or 1.     *)
(*                                                                         *)
(* Presentation state (image_texture, status_text, the open windows) is    *)
(* not kept; what a handler did to the files is recorded in access (the    *)
(* deepest access made to each file by the last handler) and read (the     *)
(* last content read: path, locality at that moment, caller, outcome).     *)
(***************************************************************************)
EXTENDS Integers, Sequences, FiniteSets, TLC

\* ------------------------------------------------------------------------
\* Option<T>
\* ------------------------------------------------------------------------
None == <<>>

Some(x) == <<x>>

IsSome(o) == Len(o) = 1

Unwrap(o) == o[1]

\* ------------------------------------------------------------------------
\* f64 as exact rationals in lowest terms
\* ------------------------------------------------------------------------
RECURSIVE GCD(_, _)
GCD(a, b) == IF b = 0 THEN a ELSE GCD(b, a % b)

Rat(n, d) == IF n = 0 THEN <<0, 1>> ELSE <<n \div GCD(n, d), d \div GCD(n, d)>>

Zero == Rat(0, 1)

RAdd(x, y) == Rat(x[1] * y[2] + y[1] * x[2], x[2] * y[2])

RMul(x, y) == Rat(x[1] * y[1], x[2] * y[2])

\* x / y, only used where the code has checked y > 0.0
RDiv(x, y) == Rat(x[1] * y[2], x[2] * y[1])

RGt(x, y) == x[1] * y[2] > y[1] * x[2]

RLe(x, y) == ~RGt(x, y)

RMax(x, y) == IF RGt(y, x) THEN y ELSE x

RECURSIVE RSum(_)
RSum(s) == IF s = <<>> THEN Zero ELSE RAdd(s[1], RSum(Tail(s)))

RECURSIVE RFoldMax(_)
RFoldMax(s) == IF s = <<>> THEN Zero ELSE RMax(RFoldMax(Tail(s)), s[1])

\* ------------------------------------------------------------------------
\* Sequence helpers
\* ------------------------------------------------------------------------
Map(s, f(_)) == [i \in 1..Len(s) |-> f(s[i])]

Range(s) == {s[i] : i \in 1..Len(s)}

\* ------------------------------------------------------------------------
\* The files on disk.  A path is a directory component, a stem and an
\* extension.  Content facts (length, dimensions, whether the header and
\* the full image can be decoded) are fixed per file; the attribute bits
\* and the readability of the metadata are state (attrs, metaOk).
\* ------------------------------------------------------------------------
PA == [dir |-> "Pictures", stem |-> "a", ext |-> "jpg"]

PB == [dir |-> "OneDrive", stem |-> "b", ext |-> "jpg"]

PC == [dir |-> "Dropbox", stem |-> "c", ext |-> "png"]

Paths == {PA, PB, PC}

BytesPerMb == 1048576

\* metadata.len()
FileLen(p) ==
    CASE p = PA -> 1 * BytesPerMb
      [] p = PB -> 3 * BytesPerMb
      [] OTHER  -> 2 * BytesPerMb

\* (width, height) as found in the image header
Dimensions(p) ==
    CASE p = PA -> <<2000, 1000>>
      [] p = PB -> <<2000, 2000>>
      [] OTHER  -> <<4000, 3000>>

\* ImageReader::open(path) + into_dimensions() succeeds
HeaderReadable(p) == TRUE

\* ImageReader::open(path) + decode() succeeds; the png is corrupt
Decodable(p) == p # PC

\* str::to_lowercase on the strings that occur in paths
ToLowercase(s) ==
    CASE s = "OneDrive" -> "onedrive"
      [] s = "Dropbox" -> "dropbox"
      [] s = "Pictures" -> "pictures"
      [] OTHER -> s

\* Windows file attribute bits
FILE_ATTRIBUTE_RECALL_ON_OPEN == 262144

FILE_ATTRIBUTE_UNPINNED == 1048576

FILE_ATTRIBUTE_RECALL_ON_DATA_ACCESS == 4194304

\* (attributes & mask) != 0 for a single-bit mask
HasBit(attributes, mask) == (attributes \div mask) % 2 = 1

\* The attribute words a file can carry: any combination of the three
\* cloud bits.
AttrValues ==
    { u + r + o :
        u \in {0, FILE_ATTRIBUTE_UNPINNED},
        r \in {0, FILE_ATTRIBUTE_RECALL_ON_DATA_ACCESS},
        o \in {0, FILE_ATTRIBUTE_RECALL_ON_OPEN} }

VARIABLES
    attrs,                  \* disk: [Paths -> attribute word]
    metaOk,                 \* disk: [Paths -> std::fs::metadata succeeds]
    file_infos,             \* ImageViewerApp.file_infos
    selected_image_index,   \* ImageViewerApp.selected_image_index
    show_slow_image_dialog,
    pending_slow_image_path,
    show_download_dialog,
    pending_download_file,
    performance_profile,    \* ImageViewerApp.performance_profile
    lastOp,                 \* observation: the operation that ran last
    access,                 \* observation: what the last operation did to each file
    read,                   \* observation: the content read the last operation made
    out,                    \* observation: the value the last operation returned
    cache                   \* IconRenderer.cache: set of [key, texture]

vars == <<attrs, metaOk, file_infos, selected_image_index,
          show_slow_image_dialog, pending_slow_image_path,
          show_download_dialog, pending_download_file,
          performance_profile, lastOp, access, read, out, cache>>

\* HashMap::new()
EmptyCache == {}

\* ------------------------------------------------------------------------
\* file_locality.rs
\* ------------------------------------------------------------------------

\* get_file_locality_status on the metadata outcome and the attribute word
ClassifyNoUnknown(ok, attributes) ==
    IF ok /\ HasBit(attributes, FILE_ATTRIBUTE_UNPINNED)
          /\ HasBit(attributes, FILE_ATTRIBUTE_RECALL_ON_DATA_ACCESS)
    THEN "OnDemand" ELSE "Local"

Classify(ok, attributes) ==
    IF ok THEN
        LET is_unpinned == HasBit(attributes, FILE_ATTRIBUTE_UNPINNED)
            has_recall_on_data_access ==
                HasBit(attributes, FILE_ATTRIBUTE_RECALL_ON_DATA_ACCESS)
        IN  IF is_unpinned /\ has_recall_on_data_access THEN "OnDemand"
            ELSE IF ~is_unpinned /\ ~has_recall_on_data_access THEN "Local"
            ELSE "Unknown"
    ELSE "Unknown"

get_file_locality_status(path) == Classify(metaOk[path], attrs[path])

\* std::fs::metadata(path).ok().map(|m| m.len())
MetadataLen(path) == IF metaOk[path] THEN Some(FileLen(path)) ELSE None

\* file_locality::FileInfo::new
FileInfo_new(path) ==
    LET locality_status == get_file_locality_status(path)
    IN  [path |-> path,
         locality_status |-> locality_status,
         estimated_download_size |->
             IF locality_status = "OnDemand" THEN MetadataLen(path) ELSE None]

\* file_locality::FileInfo::will_trigger_download
will_trigger_download(file_info) == file_info.locality_status = "OnDemand"

\* ------------------------------------------------------------------------
\* onedrive.rs
\* ------------------------------------------------------------------------

\* path_str.contains("onedrive") || path_str.contains("sharepoint"), on the
\* lowercased path; only the directory component can hold either word here
InOneDriveFolder(path) == ToLowercase(path.dir) \in {"onedrive", "sharepoint"}

get_onedrive_file_status(path) ==
    IF ~InOneDriveFolder(path) THEN "NotOneDrive"
    ELSE IF metaOk[path] THEN
        IF HasBit(attrs[path], FILE_ATTRIBUTE_RECALL_ON_DATA_ACCESS) THEN "OnlineOnly"
        ELSE IF HasBit(attrs[path], FILE_ATTRIBUTE_RECALL_ON_OPEN) THEN "PartiallyDownloaded"
        ELSE "Local"
    ELSE "Local"

\* onedrive::FileInfo::new
OneDriveFileInfo_new(path) ==
    LET onedrive_status == get_onedrive_file_status(path)
    IN  [path |-> path,
         onedrive_status |-> onedrive_status,
         estimated_download_size |->
             IF onedrive_status \in {"OnlineOnly", "PartiallyDownloaded"}
             THEN MetadataLen(path) ELSE None]

\* onedrive::FileInfo::will_trigger_download
onedrive_will_trigger_download(file_info) ==
    file_info.onedrive_status \in {"OnlineOnly", "PartiallyDownloaded"}

\* ------------------------------------------------------------------------
\* benchmark.rs: ImageCharacteristics, BenchmarkResult, PerformanceProfile
\* ------------------------------------------------------------------------
PixelsPerMegapixel == 1000000

\* ImageReader::open(path) succeeds exactly when the file can be stat'ed
CanOpen(path) == metaOk[path]

\* path.extension().and_then(|s| s.to_str()).unwrap_or("unknown").to_lowercase()
FormatOf(path) == ToLowercase(path.ext)

\* metadata(path).map(|m| m.len() as f64 / (1024.0 * 1024.0)).unwrap_or(0.0)
FileSizeMb(path) == IF metaOk[path] THEN Rat(FileLen(path), BytesPerMb) ELSE Zero

\* ImageCharacteristics::new
ImageCharacteristics_new(path, width, height, format) ==
    [file_size_mb |-> FileSizeMb(path),
     width |-> width,
     height |-> height,
     megapixels |-> Rat(width * height, PixelsPerMegapixel),
     format |-> format]

\* the characteristics built when the dimensions were not (or could not be) read
MinimalCharacteristics(path) ==
    [file_size_mb |-> FileSizeMb(path),
     width |-> 0,
     height |-> 0,
     megapixels |-> Zero,
     format |-> FormatOf(path)]

\* PerformanceProfile::default
DefaultProfile ==
    [benchmark_results |-> <<>>,
     system_capabilities |->
        [max_successful_megapixels |-> Zero,
         avg_decode_time_per_mp |-> Zero,
         avg_texture_time_per_mp |-> Zero,
         format_performance |-> [f \in {} |-> Zero]]]

Megapixels(r) == r.characteristics.megapixels

DecodeTime(r) == r.decode_time_ms

TextureTime(r) == r.texture_creation_time_ms

TotalTime(r) == r.total_time_ms

IsSuccess(r) == r.success

\* the statistics computed over every result, failed ones included
update_system_capabilities_all_results(profile) ==
    IF profile.benchmark_results = <<>> THEN profile
    ELSE
      LET results == profile.benchmark_results
          total_megapixels == RSum(Map(results, Megapixels))
          formats == {r.characteristics.format : r \in Range(results)}
          OfFormat(f) == SelectSeq(results, LAMBDA r : r.characteristics.format = f)
          total_mp(f) == RSum(Map(OfFormat(f), Megapixels))
      IN  IF ~RGt(total_megapixels, Zero) THEN profile
          ELSE [profile EXCEPT !.system_capabilities =
                  [max_successful_megapixels |-> RFoldMax(Map(results, Megapixels)),
                   avg_decode_time_per_mp |->
                       RDiv(RSum(Map(results, DecodeTime)), total_megapixels),
                   avg_texture_time_per_mp |->
                       RDiv(RSum(Map(results, TextureTime)), total_megapixels),
                   format_performance |->
                       [f \in {g \in formats : RGt(total_mp(g), Zero)} |->
                            RDiv(RSum(Map(OfFormat(f), TotalTime)), total_mp(f))]]]

\* the statistics merged into the previous ones: the maximum never drops
\* and the averages are taken over the last result and the previous average
update_system_capabilities_merging(profile) ==
    IF profile.benchmark_results = <<>> THEN profile
    ELSE
      LET last == profile.benchmark_results[Len(profile.benchmark_results)]
          caps == profile.system_capabilities
          Merge(old, new) == IF old = Zero THEN new ELSE RDiv(RAdd(old, new), Rat(2, 1))
      IN  IF ~last.success \/ ~RGt(Megapixels(last), Zero) THEN profile
          ELSE [profile EXCEPT !.system_capabilities =
                  [max_successful_megapixels |->
                       RMax(caps.max_successful_megapixels, Megapixels(last)),
                   avg_decode_time_per_mp |->
                       Merge(caps.avg_decode_time_per_mp,
                             RDiv(DecodeTime(last), Megapixels(last))),
                   avg_texture_time_per_mp |->
                       Merge(caps.avg_texture_time_per_mp,
                             RDiv(TextureTime(last), Megapixels(last))),
                   format_performance |->
                       [f \in DOMAIN caps.format_performance
                               \cup {last.characteristics.format} |->
                           IF f # last.characteristics.format
                           THEN caps.format_performance[f]
                           ELSE IF f \in DOMAIN caps.format_performance
                           THEN Merge(caps.format_performance[f],
                                      RDiv(TotalTime(last), Megapixels(last)))
                           ELSE RDiv(TotalTime(last), Megapixels(last))]]]

\* PerformanceProfile::update_system_capabilities
update_system_capabilities(profile) ==
    IF profile.benchmark_results = <<>> THEN profile
    ELSE
      LET successful_results == SelectSeq(profile.benchmark_results, IsSuccess)
          caps == profile.system_capabilities
      IN  IF successful_results = <<>> THEN profile
          ELSE
            LET total_decode_time == RSum(Map(successful_results, DecodeTime))
                total_megapixels == RSum(Map(successful_results, Megapixels))
                total_texture_time == RSum(Map(successful_results, TextureTime))
                formats == {r.characteristics.format : r \in Range(successful_results)}
                OfFormat(f) ==
                    SelectSeq(successful_results, LAMBDA r : r.characteristics.format = f)
                total_time(f) == RSum(Map(OfFormat(f), TotalTime))
                total_mp(f) == RSum(Map(OfFormat(f), Megapixels))
            IN  [profile EXCEPT !.system_capabilities =
                  [max_successful_megapixels |->
                       RFoldMax(Map(successful_results, Megapixels)),
                   avg_decode_time_per_mp |->
                       IF RGt(total_megapixels, Zero)
                       THEN RDiv(total_decode_time, total_megapixels)
                       ELSE caps.avg_decode_time_per_mp,
                   avg_texture_time_per_mp |->
                       IF RGt(total_megapixels, Zero)
                       THEN RDiv(total_texture_time, total_megapixels)
                       ELSE caps.avg_texture_time_per_mp,
                   format_performance |->
                       [f \in {g \in formats : RGt(total_mp(g), Zero)} |->
                            RDiv(total_time(f), total_mp(f))]]]

\* PerformanceProfile::add_benchmark_result
add_benchmark_result(profile, result) ==
    update_system_capabilities(
        [profile EXCEPT !.benchmark_results = Append(@, result)])

estimate_render_time_unscaled(profile, characteristics) ==
    IF profile.benchmark_results = <<>> THEN Zero
    ELSE
      LET caps == profile.system_capabilities
      IN  IF characteristics.format \in DOMAIN caps.format_performance
          THEN caps.format_performance[characteristics.format]
          ELSE RAdd(caps.avg_decode_time_per_mp, caps.avg_texture_time_per_mp)

\* the fallback rate taken from the decode average alone
estimate_render_time_decode_only(profile, characteristics) ==
    IF profile.benchmark_results = <<>> THEN Zero
    ELSE
      LET caps == profile.system_capabilities
          time_per_mp ==
              IF characteristics.format \in DOMAIN caps.format_performance
              THEN caps.format_performance[characteristics.format]
              ELSE caps.avg_decode_time_per_mp
      IN  RMul(time_per_mp, characteristics.megapixels)

\* PerformanceProfile::estimate_render_time
estimate_render_time(profile, characteristics) ==
    IF profile.benchmark_results = <<>> THEN Zero
    ELSE
      LET caps == profile.system_capabilities
          time_per_mp ==
              IF characteristics.format \in DOMAIN caps.format_performance
              THEN caps.format_performance[characteristics.format]
              ELSE RAdd(caps.avg_decode_time_per_mp, caps.avg_texture_time_per_mp)
      IN  RMul(time_per_mp, characteristics.megapixels)

\* the measured durations of one benchmark_image call, in whole milliseconds:
\* decode, texture creation, and what start_time.elapsed() sees on top of both
Timings ==
    [decode : {40, 1990}, texture : {10}, overhead : {0, 1}]

Ms(n) == Rat(n, 1)

\* benchmark::try_create_texture, which has no failing path
try_create_texture(path) == "Ok"

\* benchmark_image with the header's dimensions kept in a failed result
benchmark_image_failure_with_dimensions(path, t) ==
    LET file_info == OneDriveFileInfo_new(path)
        measured ==
            ImageCharacteristics_new(path, Dimensions(path)[1],
                                     Dimensions(path)[2], FormatOf(path))
    IN  IF onedrive_will_trigger_download(file_info) THEN
            [result |->
                [characteristics |-> MinimalCharacteristics(path),
                 decode_time_ms |-> Zero,
                 texture_creation_time_ms |-> Zero,
                 total_time_ms |-> Zero,
                 success |-> FALSE,
                 error_message |-> Some("Skipped OneDrive file")],
             opened |-> "meta"]
        ELSE
            [result |->
                [characteristics |-> measured,
                 decode_time_ms |-> Ms(t.decode),
                 texture_creation_time_ms |-> Ms(t.texture),
                 total_time_ms |-> Ms(t.decode + t.texture + t.overhead),
                 success |-> CanOpen(path) /\ Decodable(path),
                 error_message |->
                     IF CanOpen(path) /\ Decodable(path) THEN None
                     ELSE Some(IF CanOpen(path) THEN "Failed to decode image"
                               ELSE "Failed to open image")],
             opened |-> "content"]

\* benchmark::benchmark_image; .result is the BenchmarkResult returned,
\* .opened the deepest access made to the file
benchmark_image(path, t) ==
    LET file_info == OneDriveFileInfo_new(path)
    IN  IF onedrive_will_trigger_download(file_info) THEN
            [result |->
                [characteristics |-> MinimalCharacteristics(path),
                 decode_time_ms |-> Zero,
                 texture_creation_time_ms |-> Zero,
                 total_time_ms |-> Zero,
                 success |-> FALSE,
                 error_message |-> Some("Skipped OneDrive file")],
             opened |-> "meta"]
        ELSE IF CanOpen(path) /\ Decodable(path) THEN
            [result |->
                [characteristics |->
                     ImageCharacteristics_new(path, Dimensions(path)[1],
                                              Dimensions(path)[2], FormatOf(path)),
                 decode_time_ms |-> Ms(t.decode),
                 texture_creation_time_ms |-> Ms(t.texture),
                 total_time_ms |-> Ms(t.decode + t.texture + t.overhead),
                 success |-> try_create_texture(path) = "Ok",
                 error_message |->
                     IF try_create_texture(path) = "Ok" THEN None
                     ELSE Some("Texture creation failed")],
             opened |-> "content"]
        ELSE
            [result |->
                [characteristics |-> MinimalCharacteristics(path),
                 decode_time_ms |-> Ms(t.decode),
                 texture_creation_time_ms |-> Zero,
                 total_time_ms |-> Ms(t.decode + t.overhead),
                 success |-> FALSE,
                 error_message |->
                     Some(IF CanOpen(path) THEN "Failed to decode image"
                          ELSE "Failed to open image")],
             opened |-> "content"]

\* ------------------------------------------------------------------------
\* benchmark.rs: SystemPerformanceCategory and run_simple_cpu_benchmark
\* ------------------------------------------------------------------------

\* the upper ends of the first four arms of the match on the score
LowPowerMax == 999

ModerateMax == 2999

GoodMax == 5999

HighMax == 9999

\* the bands with each upper end one too high
from_score_inclusive_ends(score) ==
    IF score <= LowPowerMax + 1 THEN "LowPower"
    ELSE IF score <= ModerateMax + 1 THEN "Moderate"
    ELSE IF score <= GoodMax + 1 THEN "Good"
    ELSE IF score <= HighMax + 1 THEN "High"
    ELSE "Excellent"

\* SystemPerformanceCategory::from_score
from_score(score) ==
    IF score <= LowPowerMax THEN "LowPower"
    ELSE IF score <= ModerateMax THEN "Moderate"
    ELSE IF score <= GoodMax THEN "Good"
    ELSE IF score <= HighMax THEN "High"
    ELSE "Excellent"

\* test_data.len(), and the divisor of data.len() in the read loop
TestDataLen == 500000

DataLenDivisor == 10000

\* the average read time taken when no read succeeded, the limit below
\* which the storage counts as fast, and (io_factor * 1000.0) as u32 for the
\* fast bonus's numerator (2000.0) and for the penalty factor (0.1)
FailedReadPenaltyMs == 100

SlowReadLimitMs == 200

FastStorageNumerator == 2000000

SlowStorageTerm == 100

\* what the five rounds of the memory test add: the buffer and the packed
\* words are the same in every run, 5 * (106088388388176 / 10_000_000)
MemoryTestTerm == 53044190

\* what the 25_000 rounds of the arithmetic test add: new_width = 1024 and
\* new_height = 576 in f32, and the sum of (1600 + i) / 2000 over i
ArithmeticTestTerm == 163800

\* the numerator of time_factor and the two ends of the final clamp
TimeFactorNumerator == 50

MaxFinalScore == 15000

MinFinalScore == 50

\* the scratch file after std::fs::write: complete on success; on failure
\* either untouched (the file could not be opened) or cut short
AfterWrite(before, write) ==
    CASE write = "ok" -> "complete"
      [] write = "failed_open" -> before
      [] OTHER -> "partial"

\* data.len() of a successful std::fs::read of the scratch file
ScratchLen(file) == IF file = "complete" THEN TestDataLen ELSE TestDataLen \div 2

\* the clean-up skipped for a file that is not the complete test file
remove_file_only_complete(file) == IF file = "complete" THEN "absent" ELSE file

\* std::fs::remove_file(test_file_path), its error ignored: the file is
\* gone afterwards, whether or not there was one
remove_file(file) == "absent"

\* final_score.min(15_000) alone
ClampMaxOnly(final_score) ==
    IF final_score > MaxFinalScore THEN MaxFinalScore ELSE final_score

\* final_score.min(15_000).max(50)
ClampFinalScore(final_score) ==
    IF final_score > MaxFinalScore THEN MaxFinalScore
    ELSE IF final_score < MinFinalScore THEN MinFinalScore
    ELSE final_score

\* (score as f64 * (50.0 / elapsed as f64)) as u32 for an elapsed time of 1 ms
\* or a multiple of 50 ms, cut at 15_000 * 50 (the clamp follows), so that the
\* product is never formed
ScaleByTime(score, elapsed) ==
    IF elapsed = 1
    THEN IF score >= MaxFinalScore THEN MaxFinalScore * TimeFactorNumerator
         ELSE score * TimeFactorNumerator
    ELSE score \div (elapsed \div TimeFactorNumerator)

\* run_simple_cpu_benchmark.  inp gives what the file system and the clock
\* do: the scratch file before, the outcome of the write, of each of the
\* five reads, the time one read takes and the time the rest of the run
\* takes.  .raw is score before the normalisation, .value the score
\* returned, .scratch the scratch file when the function returns.
run_simple_cpu_benchmark(inp) ==
    LET written == AfterWrite(inp.before, inp.write)
        write_success == inp.write = "ok"
        ok_reads == {i \in DOMAIN inp.reads : inp.reads[i] /\ written # "absent"}
        read_score == Cardinality(ok_reads) * (ScratchLen(written) \div DataLenDivisor)
        io_time == Cardinality(ok_reads) * inp.read_ms
        avg_read_time == IF ok_reads # {} THEN inp.read_ms ELSE FailedReadPenaltyMs
        io_term ==
            IF write_success /\ avg_read_time < SlowReadLimitMs
            THEN FastStorageNumerator
                     \div (IF avg_read_time + io_time < 1 THEN 1
                           ELSE avg_read_time + io_time)
            ELSE SlowStorageTerm
        score == read_score + io_term + MemoryTestTerm + ArithmeticTestTerm
        elapsed == io_time + inp.rest_ms
        elapsed_ms == IF elapsed < 1 THEN 1 ELSE elapsed
    IN  [raw |-> score,
         elapsed_ms |-> elapsed,
         value |-> ClampFinalScore(ScaleByTime(score, elapsed_ms)),
         scratch |-> remove_file(written)]

\* ------------------------------------------------------------------------
\* image_processing.rs
\* ------------------------------------------------------------------------

\* estimate_image_render_time after its locality check: the header probe
ProbeHeaderAndEstimate(path, profile) ==
    IF CanOpen(path) /\ HeaderReadable(path) THEN
        [value |-> Some(estimate_render_time(profile,
                        ImageCharacteristics_new(path, Dimensions(path)[1],
                                                 Dimensions(path)[2], FormatOf(path)))),
         opened |-> "header"]
    ELSE [value |-> None, opened |-> "header"]

estimate_image_render_time_unchecked(path, profile) ==
    ProbeHeaderAndEstimate(path, profile)

\* estimate_image_render_time; .value is the Option<f64> returned, .opened
\* the deepest access made to the file
estimate_image_render_time(path, profile) ==
    LET file_info == FileInfo_new(path)
    IN  IF will_trigger_download(file_info) THEN [value |-> None, opened |-> "meta"]
        ELSE ProbeHeaderAndEstimate(path, profile)

\* ------------------------------------------------------------------------
\* The safe-sample selector (select_samples): gather, classify, filter by
\* size, probe the header, filter by pixel count, sort by size, truncate.
\* ------------------------------------------------------------------------

\* the candidates the asset location yields, in directory-listing order
Candidates == <<PC, PB, PA>>

MaxSamplesInput == 3

\* the SafeProbeLimits the selector is run with: LowPower (2 MB, 4 MP),
\* Excellent (50 MB, 64 MP), and every sample count up to MaxSamplesInput
LimitsInputs ==
    [max_file_size_mb : {2, 50}, max_megapixels : {4, 64},
     max_samples : 1..MaxSamplesInput]

RECURSIVE InsertBySize(_, _)
InsertBySize(sorted, p) ==
    IF sorted = <<>> THEN <<p>>
    ELSE IF FileLen(p) < FileLen(sorted[1]) THEN <<p>> \o sorted
    ELSE <<sorted[1]>> \o InsertBySize(Tail(sorted), p)

RECURSIVE SortBySize(_)
SortBySize(s) ==
    IF s = <<>> THEN <<>>
    ELSE InsertBySize(SortBySize(SubSeq(s, 1, Len(s) - 1)), s[Len(s)])

Truncate(s, n) == SubSeq(s, 1, IF Len(s) < n THEN Len(s) ELSE n)

IsLocalNow(p) == get_file_locality_status(p) = "Local"

WithinSize(p, limits) ==
    RLe(FileSizeMb(p), Ms(limits.max_file_size_mb))

WithinPixels(p, limits) ==
    /\ CanOpen(p) /\ HeaderReadable(p)
    /\ RLe(Rat(Dimensions(p)[1] * Dimensions(p)[2], PixelsPerMegapixel),
           Ms(limits.max_megapixels))

select_samples_no_size_filter(limits) ==
    LET local == SelectSeq(Candidates, IsLocalNow)
        fits == SelectSeq(local, LAMBDA p : WithinPixels(p, limits))
    IN  [samples |-> Truncate(SortBySize(fits), limits.max_samples),
         opened |-> [p \in Paths |->
                        IF p \in Range(local) THEN "header" ELSE "meta"]]

\* select_samples; .samples is the sequence returned, .opened the deepest
\* access made to each file
select_samples(limits) ==
    LET local == SelectSeq(Candidates, IsLocalNow)
        small == SelectSeq(local, LAMBDA p : WithinSize(p, limits))
        fits == SelectSeq(small, LAMBDA p : WithinPixels(p, limits))
    IN  [samples |-> Truncate(SortBySize(fits), limits.max_samples),
         opened |-> [p \in Paths |->
                        IF p \in Range(small) THEN "header" ELSE "meta"]]

\* ------------------------------------------------------------------------
\* app.rs: ImageViewerApp.  The handlers are composed as functions on a
\* record of the application state; an action commits the final record.
\* ------------------------------------------------------------------------
benchmark_threshold_ms == 2000

MinDynamicMaxFileSizeMb == 50

\* the files the start-up glob found, in the order they were pushed
Tracked == <<PA, PB>>

NoAccess == [p \in Paths |-> "none"]

\* what a read of a recall-on-data-access file can do: fetch the content and
\* make the file local, or fail
FetchOutcomes == {"hydrated", "failed"}

ClearBit(attributes, mask) ==
    IF HasBit(attributes, mask) THEN attributes - mask ELSE attributes

Hydrated(attributes) ==
    ClearBit(ClearBit(attributes, FILE_ATTRIBUTE_UNPINNED),
             FILE_ATTRIBUTE_RECALL_ON_DATA_ACCESS)

AppState ==
    [attrs |-> attrs,
     file_infos |-> file_infos,
     selected_image_index |-> selected_image_index,
     show_slow_image_dialog |-> show_slow_image_dialog,
     pending_slow_image_path |-> pending_slow_image_path,
     show_download_dialog |-> show_download_dialog,
     pending_download_file |-> pending_download_file,
     performance_profile |-> performance_profile,
     access |-> NoAccess,
     read |-> None]

\* self.file_infos.iter().position(|f| f.path == path), 0-based
Position(infos, path) ==
    LET hits == {i \in DOMAIN infos : infos[i].path = path}
    IN  IF hits = {} THEN None
        ELSE Some((CHOOSE i \in hits : \A j \in hits : i <= j) - 1)

\* ImageLoadingSettings::get_effective_max_file_size_mb with the default
\* settings (no manual limit), at the lowest value the dynamic limit takes
get_effective_max_file_size_mb == Some(MinDynamicMaxFileSizeMb)

\* image_processing::should_skip_large_file
should_skip_large_file(st, path, force_load) ==
    IF ~force_load
       /\ Classify(metaOk[path], st.attrs[path]) = "OnDemand"
    THEN Some("Skipped on-demand file")
    ELSE IF IsSome(get_effective_max_file_size_mb) /\ metaOk[path]
            /\ FileLen(path) \div BytesPerMb > Unwrap(get_effective_max_file_size_mb)
    THEN Some("Skipped large file")
    ELSE None

\* ImageViewerApp::update_file_locality_status
update_file_locality_status(st, file_path) ==
    LET pos == Position(st.file_infos, file_path)
    IN  IF pos = None THEN st
        ELSE
          LET i == Unwrap(pos) + 1
              new_status == Classify(metaOk[file_path], st.attrs[file_path])
          IN  IF st.file_infos[i].locality_status # new_status
              THEN [st EXCEPT
                       !.file_infos[i].locality_status = new_status,
                       !.file_infos[i].estimated_download_size =
                           IF new_status = "Local" THEN None ELSE @]
              ELSE st

RefreshOneOnlyWhenLocal(st, file_info) ==
    IF Classify(metaOk[file_info.path], st.attrs[file_info.path]) = "Local"
    THEN [file_info EXCEPT !.locality_status = "Local",
                           !.estimated_download_size = None]
    ELSE file_info

\* the body of the loop of refresh_all_file_locality_status
RefreshOne(st, file_info) ==
    LET new_status == Classify(metaOk[file_info.path], st.attrs[file_info.path])
    IN  IF file_info.locality_status # new_status
        THEN [file_info EXCEPT
                 !.locality_status = new_status,
                 !.estimated_download_size =
                     IF new_status = "Local" THEN None
                     ELSE IF new_status = "OnDemand" THEN MetadataLen(file_info.path)
                     ELSE @]
        ELSE file_info

\* ImageViewerApp::refresh_all_file_locality_status
refresh_all_file_locality_status(st) ==
    [st EXCEPT
        !.file_infos = [i \in DOMAIN st.file_infos |-> RefreshOne(st, st.file_infos[i])],
        !.access = [p \in Paths |->
                       IF p \in {st.file_infos[i].path : i \in DOMAIN st.file_infos}
                       THEN "meta" ELSE st.access[p]]]

\* force_load_selected_image leaving the tracked status as it was
force_load_selected_image_keeping_status(st, via, fetch) ==
    IF st.selected_image_index = None THEN st
    ELSE IF Unwrap(st.selected_image_index) + 1 \notin DOMAIN st.file_infos THEN st
    ELSE
      LET path == st.file_infos[Unwrap(st.selected_image_index) + 1].path
          attributes == st.attrs[path]
          recalls == metaOk[path]
                     /\ HasBit(attributes, FILE_ATTRIBUTE_RECALL_ON_DATA_ACCESS)
          ok == CanOpen(path) /\ Decodable(path) /\ (recalls => fetch # "failed")
      IN  IF should_skip_large_file(st, path, TRUE) # None
          THEN [st EXCEPT !.access[path] = IF @ = "none" THEN "meta" ELSE @]
          ELSE [st EXCEPT
                   !.attrs[path] =
                       IF recalls /\ fetch = "hydrated"
                       THEN Hydrated(attributes) ELSE attributes,
                   !.access[path] = "content",
                   !.read = Some([path |-> path,
                                  locality |-> Classify(metaOk[path], attributes),
                                  via |-> via,
                                  loaded |-> ok])]

\* ImageViewerApp::force_load_selected_image; via names the caller and fetch
\* is what the provider does if the read recalls the file
force_load_selected_image(st, via, fetch) ==
    IF st.selected_image_index = None THEN st
    ELSE IF Unwrap(st.selected_image_index) + 1 \notin DOMAIN st.file_infos THEN st
    ELSE
      LET path == st.file_infos[Unwrap(st.selected_image_index) + 1].path
          attributes == st.attrs[path]
          recalls == metaOk[path]
                     /\ HasBit(attributes, FILE_ATTRIBUTE_RECALL_ON_DATA_ACCESS)
          ok == CanOpen(path) /\ Decodable(path) /\ (recalls => fetch # "failed")
          st1 == [st EXCEPT
                     !.attrs[path] =
                         IF recalls /\ fetch = "hydrated"
                         THEN Hydrated(attributes) ELSE attributes,
                     !.access[path] = "content",
                     !.read = Some([path |-> path,
                                    locality |-> Classify(metaOk[path], attributes),
                                    via |-> via,
                                    loaded |-> ok])]
      IN  IF should_skip_large_file(st, path, TRUE) # None
          THEN [st EXCEPT !.access[path] = IF @ = "none" THEN "meta" ELSE @]
          ELSE IF ok
          THEN update_file_locality_status(st1, path)
          ELSE st1

\* load_selected_image asking for confirmation at the threshold already
load_selected_image_at_threshold(st, fetch) ==
    IF st.selected_image_index = None THEN st
    ELSE IF Unwrap(st.selected_image_index) + 1 \notin DOMAIN st.file_infos THEN st
    ELSE
      LET file_info == st.file_infos[Unwrap(st.selected_image_index) + 1]
          estimate == estimate_image_render_time(file_info.path, st.performance_profile)
          probed == [st EXCEPT !.access[file_info.path] = estimate.opened]
      IN  IF will_trigger_download(file_info)
          THEN [st EXCEPT !.pending_download_file = Some(file_info),
                          !.show_download_dialog = TRUE]
          ELSE IF st.performance_profile.benchmark_results # <<>>
          THEN IF IsSome(estimate.value)
                  /\ ~RGt(Ms(benchmark_threshold_ms), Unwrap(estimate.value))
               THEN [probed EXCEPT !.pending_slow_image_path = Some(file_info.path),
                                   !.show_slow_image_dialog = TRUE]
               ELSE force_load_selected_image(probed, "select", fetch)
          ELSE force_load_selected_image(st, "select", fetch)

\* ImageViewerApp::load_selected_image
load_selected_image(st, fetch) ==
    IF st.selected_image_index = None THEN st
    ELSE IF Unwrap(st.selected_image_index) + 1 \notin DOMAIN st.file_infos THEN st
    ELSE
      LET file_info == st.file_infos[Unwrap(st.selected_image_index) + 1]
          estimate == estimate_image_render_time(file_info.path, st.performance_profile)
          probed == [st EXCEPT !.access[file_info.path] = estimate.opened]
      IN  IF will_trigger_download(file_info)
          THEN [st EXCEPT !.pending_download_file = Some(file_info),
                          !.show_download_dialog = TRUE]
          ELSE IF st.performance_profile.benchmark_results # <<>>
          THEN IF IsSome(estimate.value)
                  /\ RGt(Unwrap(estimate.value), Ms(benchmark_threshold_ms))
               THEN [probed EXCEPT !.pending_slow_image_path = Some(file_info.path),
                                   !.show_slow_image_dialog = TRUE]
               ELSE force_load_selected_image(probed, "select", fetch)
          ELSE force_load_selected_image(st, "select", fetch)

\* handle_keyboard_nav wrapping around at both ends of the list
handle_keyboard_nav_wrapping(st, up, down, fetch) ==
    LET len == Len(st.file_infos)
        sel0 == st.selected_image_index
        sel1 == IF up /\ len # 0 THEN
                    IF sel0 # None /\ Unwrap(sel0) > 0
                    THEN Some(Unwrap(sel0) - 1) ELSE Some(len - 1)
                ELSE sel0
        sel2 == IF down /\ len # 0 THEN
                    IF sel1 # None /\ Unwrap(sel1) < len - 1
                    THEN Some(Unwrap(sel1) + 1) ELSE Some(0)
                ELSE sel1
    IN  IF (up /\ sel1 # sel0) \/ (down /\ sel2 # sel1)
        THEN load_selected_image([st EXCEPT !.selected_image_index = sel2], fetch)
        ELSE st

\* ImageViewerApp::handle_keyboard_nav, for the keys pressed in this frame
handle_keyboard_nav(st, up, down, fetch) ==
    LET len == Len(st.file_infos)
        sel0 == st.selected_image_index
        sel1 == IF up THEN
                    IF sel0 # None
                    THEN IF Unwrap(sel0) > 0 THEN Some(Unwrap(sel0) - 1) ELSE sel0
                    ELSE IF len # 0 THEN Some(len - 1) ELSE sel0
                ELSE sel0
        sel2 == IF down THEN
                    IF sel1 # None
                    THEN IF Unwrap(sel1) < len - 1 THEN Some(Unwrap(sel1) + 1) ELSE sel1
                    ELSE IF len # 0 THEN Some(0) ELSE sel1
                ELSE sel1
        changed == (up /\ sel1 # sel0) \/ (down /\ sel2 # sel1)
    IN  IF changed
        THEN load_selected_image([st EXCEPT !.selected_image_index = sel2], fetch)
        ELSE st

\* ImageViewerApp::handle_slow_image_dialog; input is what the user did to
\* the window in this frame
handle_slow_image_dialog(st, input, fetch) ==
    IF ~st.show_slow_image_dialog THEN st
    ELSE IF input = "close"
    THEN [st EXCEPT !.show_slow_image_dialog = FALSE,
                    !.pending_slow_image_path = None]
    ELSE IF input = "load_anyway"
    THEN LET taken == [st EXCEPT !.show_slow_image_dialog = FALSE,
                                 !.pending_slow_image_path = None]
             pos == IF st.pending_slow_image_path = None THEN None
                    ELSE Position(st.file_infos, Unwrap(st.pending_slow_image_path))
         IN  IF pos = None THEN taken
             ELSE force_load_selected_image(
                      [taken EXCEPT !.selected_image_index = pos], "slow", fetch)
    ELSE st

\* handle_download_dialog forgetting to drop the pending file on close
handle_download_dialog_keeping_pending(st, input, fetch) ==
    IF ~st.show_download_dialog THEN st
    ELSE IF input = "close"
    THEN [st EXCEPT !.show_download_dialog = FALSE]
    ELSE IF input = "download_anyway"
    THEN LET taken == [st EXCEPT !.show_download_dialog = FALSE,
                                 !.pending_download_file = None]
             pos == IF st.pending_download_file = None THEN None
                    ELSE Position(st.file_infos, Unwrap(st.pending_download_file).path)
         IN  IF pos = None THEN taken
             ELSE force_load_selected_image(
                      [taken EXCEPT !.selected_image_index = pos], "download", fetch)
    ELSE st

\* ImageViewerApp::handle_download_dialog
handle_download_dialog(st, input, fetch) ==
    IF ~st.show_download_dialog THEN st
    ELSE IF input = "close"
    THEN [st EXCEPT !.show_download_dialog = FALSE,
                    !.pending_download_file = None]
    ELSE IF input = "download_anyway"
    THEN LET taken == [st EXCEPT !.show_download_dialog = FALSE,
                                 !.pending_download_file = None]
             pos == IF st.pending_download_file = None THEN None
                    ELSE Position(st.file_infos, Unwrap(st.pending_download_file).path)
         IN  IF pos = None THEN taken
             ELSE force_load_selected_image(
                      [taken EXCEPT !.selected_image_index = pos], "download", fetch)
    ELSE st

\* benchmark::find_asset_images when assets/ holds no image: the images of
\* the current directory that onedrive::FileInfo does not flag
find_asset_images ==
    SelectSeq(Tracked,
              LAMBDA p : ~onedrive_will_trigger_download(OneDriveFileInfo_new(p)))

\* the loop of a benchmark run taking the samples from the last to the first
RECURSIVE BenchmarkEachFromLast(_, _, _)
BenchmarkEachFromLast(st, paths, t) ==
    IF paths = <<>> THEN st
    ELSE BenchmarkEachFromLast(
             [st EXCEPT
                 !.performance_profile =
                     add_benchmark_result(@, benchmark_image(paths[Len(paths)], t).result),
                 !.access[paths[Len(paths)]] = benchmark_image(paths[Len(paths)], t).opened],
             SubSeq(paths, 1, Len(paths) - 1), t)

\* the loop of a benchmark run given up at the first sample that fails
RECURSIVE BenchmarkEachUntilFailure(_, _, _)
BenchmarkEachUntilFailure(st, paths, t) ==
    IF paths = <<>> THEN st
    ELSE LET r == benchmark_image(paths[1], t)
             st1 == [st EXCEPT
                        !.performance_profile = add_benchmark_result(@, r.result),
                        !.access[paths[1]] = r.opened]
         IN  IF r.result.success
             THEN BenchmarkEachUntilFailure(st1, Tail(paths), t)
             ELSE st1

\* the loop of a benchmark run: benchmark_image on each path in turn, each
\* result handed to add_benchmark_result
RECURSIVE BenchmarkEach(_, _, _)
BenchmarkEach(st, paths, t) ==
    IF paths = <<>> THEN st
    ELSE BenchmarkEach(
             [st EXCEPT
                 !.performance_profile =
                     add_benchmark_result(@, benchmark_image(paths[1], t).result),
                 !.access[paths[1]] = benchmark_image(paths[1], t).opened],
             Tail(paths), t)

\* ImageViewerApp::run_benchmark; t is what the clock measures for each image
run_benchmark(st, t) ==
    BenchmarkEach(
        [st EXCEPT !.performance_profile.benchmark_results = <<>>],
        find_asset_images, t)

\* PerformanceProfile::benchmark_safe_images: the samples select_samples
\* yields under the limits, each benchmarked and recorded
benchmark_safe_images(st, limits, t) ==
    BenchmarkEach([st EXCEPT !.access = select_samples(limits).opened],
                  select_samples(limits).samples, t)

\* ImageViewerApp::run_benchmark with the samples of benchmark_safe_images
run_benchmark_safe(st, limits, t) ==
    benchmark_safe_images(
        [st EXCEPT !.performance_profile.benchmark_results = <<>>], limits, t)

\* ------------------------------------------------------------------------
\* The browsing session
\* ------------------------------------------------------------------------

\* the cloud bits the locality classifier looks at
LocalityAttrValues ==
    { u + r : u \in {0, FILE_ATTRIBUTE_UNPINNED},
              r \in {0, FILE_ATTRIBUTE_RECALL_ON_DATA_ACCESS} }

Commit(st, op) ==
    /\ attrs' = st.attrs
    /\ file_infos' = st.file_infos
    /\ selected_image_index' = st.selected_image_index
    /\ show_slow_image_dialog' = st.show_slow_image_dialog
    /\ pending_slow_image_path' = st.pending_slow_image_path
    /\ show_download_dialog' = st.show_download_dialog
    /\ pending_download_file' = st.pending_download_file
    /\ performance_profile' = st.performance_profile
    /\ access' = st.access
    /\ read' = st.read
    /\ lastOp' = op
    /\ out' = None
    /\ UNCHANGED <<metaOk, cache>>

\* ImageViewerApp::default on a disk where the tracked files exist
Init ==
    /\ attrs \in [Paths -> LocalityAttrValues]
    /\ attrs[PC] = 0
    /\ metaOk = [p \in Paths |-> TRUE]
    /\ file_infos = [i \in DOMAIN Tracked |-> FileInfo_new(Tracked[i])]
    /\ selected_image_index = None
    /\ show_slow_image_dialog = FALSE
    /\ pending_slow_image_path = None
    /\ show_download_dialog = FALSE
    /\ pending_download_file = None
    /\ performance_profile = DefaultProfile
    /\ lastOp = "new"
    /\ access = [p \in Paths |-> IF p \in Range(Tracked) THEN "meta" ELSE "none"]
    /\ read = None
    /\ out = None
    /\ cache = EmptyCache

\* the sync provider changes a tracked file's attributes in the background
SyncChange ==
    \E p \in Range(Tracked), a \in LocalityAttrValues :
        /\ a # attrs[p]
        /\ Commit([AppState EXCEPT !.attrs[p] = a], "sync")

\* render_file_list: a click on row index, then load_selected_image
ClickFile ==
    \E index \in 0..(Len(file_infos) - 1), fetch \in FetchOutcomes :
        Commit(load_selected_image(
                   [AppState EXCEPT !.selected_image_index = Some(index)], fetch),
               "select")

KeyboardNav ==
    \E up \in BOOLEAN, down \in BOOLEAN, fetch \in FetchOutcomes :
        /\ up \/ down
        /\ Commit(handle_keyboard_nav(AppState, up, down, fetch), "select")

\* the Refresh File Status menu entry
RefreshFileStatus ==
    \E st \in {refresh_all_file_locality_status(AppState)} :
        Commit(st, "refresh")

SlowImageDialog ==
    \E input \in {"close", "load_anyway"}, fetch \in FetchOutcomes :
        /\ show_slow_image_dialog
        /\ Commit(handle_slow_image_dialog(AppState, input, fetch), "slow_dialog")

DownloadDialog ==
    \E input \in {"close", "download_anyway"}, fetch \in FetchOutcomes :
        /\ show_download_dialog
        /\ Commit(handle_download_dialog(AppState, input, fetch), "download_dialog")

\* the Run Benchmark menu entry: ImageViewerApp::run_benchmark
RunBenchmark ==
    \E t \in Timings :
        /\ t.overhead = 0
        /\ Commit(run_benchmark(AppState, t), "benchmark")

Next ==
    \/ SyncChange
    \/ ClickFile
    \/ KeyboardNav
    \/ RefreshFileStatus
    \/ SlowImageDialog
    \/ DownloadDialog
    \/ RunBenchmark

Spec == Init /\ [][Next]_vars

\* ------------------------------------------------------------------------
\* The operations on one file, applied to every disk state
\* ------------------------------------------------------------------------
AppVars == <<file_infos, selected_image_index, show_slow_image_dialog,
             pending_slow_image_path, show_download_dialog, pending_download_file,
             cache>>

\* the profile after one successful 2.0 MP jpg result: decode 40, texture 10
ScenarioResult ==
    [characteristics |->
        [file_size_mb |-> Rat(1, 1), width |-> 2000, height |-> 1000,
         megapixels |-> Rat(2, 1), format |-> "jpg"],
     decode_time_ms |-> Ms(40),
     texture_creation_time_ms |-> Ms(10),
     total_time_ms |-> Ms(50),
     success |-> TRUE,
     error_message |-> None]

InitProbe ==
    /\ attrs \in [Paths -> AttrValues]
    /\ metaOk \in [Paths -> BOOLEAN]
    /\ performance_profile \in
           {DefaultProfile, add_benchmark_result(DefaultProfile, ScenarioResult)}
    /\ file_infos = <<>>
    /\ selected_image_index = None
    /\ show_slow_image_dialog = FALSE
    /\ pending_slow_image_path = None
    /\ show_download_dialog = FALSE
    /\ pending_download_file = None
    /\ lastOp = "input"
    /\ access = NoAccess
    /\ read = None
    /\ out = None
    /\ cache = EmptyCache

\* file_locality::get_file_locality_status(path)
ProbeClassify ==
    \E p \in Paths :
        /\ lastOp = "input"
        /\ lastOp' = "classify"
        /\ out' = [path |-> p, value |-> get_file_locality_status(p)]
        /\ access' = [NoAccess EXCEPT ![p] = "meta"]
        /\ UNCHANGED <<attrs, metaOk, performance_profile, read, AppVars>>

\* image_processing::estimate_image_render_time(path, profile)
ProbeEstimate ==
    \E p \in Paths :
        /\ lastOp = "input"
        /\ lastOp' = "estimate"
        /\ out' = [path |-> p,
                   value |-> estimate_image_render_time(p, performance_profile).value]
        /\ access' = [NoAccess EXCEPT
                         ![p] = estimate_image_render_time(p, performance_profile).opened]
        /\ UNCHANGED <<attrs, metaOk, performance_profile, read, AppVars>>

\* benchmark::benchmark_image(path)
ProbeBenchmark ==
    \E p \in Paths, t \in Timings :
        /\ lastOp = "input"
        /\ lastOp' = "benchmark"
        /\ out' = [path |-> p, value |-> benchmark_image(p, t).result]
        /\ access' = [NoAccess EXCEPT ![p] = benchmark_image(p, t).opened]
        /\ UNCHANGED <<attrs, metaOk, performance_profile, read, AppVars>>

\* select_samples(limits)
ProbeSelectSamples ==
    \E limits \in LimitsInputs :
        /\ lastOp = "input"
        /\ lastOp' = "select_samples"
        /\ out' = [limits |-> limits, value |-> select_samples(limits).samples]
        /\ access' = select_samples(limits).opened
        /\ UNCHANGED <<attrs, metaOk, performance_profile, read, AppVars>>

NextProbe ==
    \/ ProbeClassify
    \/ ProbeEstimate
    \/ ProbeBenchmark
    \/ ProbeSelectSamples

SpecProbe == InitProbe /\ [][NextProbe]_vars

\* ------------------------------------------------------------------------
\* The performance profile: results are added one by one and estimates
\* are asked in between
\* ------------------------------------------------------------------------
MaxProfileResults == 2

InitProfile ==
    /\ attrs \in [Paths -> {0, FILE_ATTRIBUTE_UNPINNED
                                 + FILE_ATTRIBUTE_RECALL_ON_DATA_ACCESS}]
    /\ attrs[PA] = 0 /\ attrs[PC] = 0
    /\ metaOk = [p \in Paths |-> TRUE]
    /\ performance_profile = DefaultProfile
    /\ file_infos = <<>>
    /\ selected_image_index = None
    /\ show_slow_image_dialog = FALSE
    /\ pending_slow_image_path = None
    /\ show_download_dialog = FALSE
    /\ pending_download_file = None
    /\ lastOp = "new"
    /\ access = NoAccess
    /\ read = None
    /\ out = None
    /\ cache = EmptyCache

\* benchmark_image(path), then PerformanceProfile::add_benchmark_result
ProfileAddResult ==
    \E p \in Paths, t \in Timings :
        /\ Len(performance_profile.benchmark_results) < MaxProfileResults
        /\ performance_profile' =
               add_benchmark_result(performance_profile, benchmark_image(p, t).result)
        /\ lastOp' = "add_result"
        /\ out' = None
        /\ access' = [NoAccess EXCEPT ![p] = benchmark_image(p, t).opened]
        /\ UNCHANGED <<attrs, metaOk, read, AppVars>>

\* the result benchmark_image returns for a 12 MP png that decodes
DecodedPngResult(t) ==
    [characteristics |-> ImageCharacteristics_new(PC, 4000, 3000, "png"),
     decode_time_ms |-> Ms(t.decode),
     texture_creation_time_ms |-> Ms(t.texture),
     total_time_ms |-> Ms(t.decode + t.texture + t.overhead),
     success |-> TRUE,
     error_message |-> None]

\* PerformanceProfile::add_benchmark_result with a result of another image
ProfileAddOtherResult ==
    \E t \in Timings :
        /\ Len(performance_profile.benchmark_results) < MaxProfileResults
        /\ performance_profile' =
               add_benchmark_result(performance_profile, DecodedPngResult(t))
        /\ lastOp' = "add_result"
        /\ out' = None
        /\ access' = NoAccess
        /\ UNCHANGED <<attrs, metaOk, read, AppVars>>

\* the characteristics estimates are asked for: the three images, and a
\* 1 MP image of a format that is never benchmarked
TargetCharacteristics ==
    { ImageCharacteristics_new(p, Dimensions(p)[1], Dimensions(p)[2], FormatOf(p)) :
          p \in Paths }
    \cup { ImageCharacteristics_new(PA, 1000, 1000, "bmp") }

\* PerformanceProfile::estimate_render_time(characteristics)
ProfileEstimateCharacteristics ==
    \E c \in TargetCharacteristics :
        /\ lastOp' = "estimate_render_time"
        /\ out' = [characteristics |-> c,
                   value |-> estimate_render_time(performance_profile, c)]
        /\ access' = NoAccess
        /\ UNCHANGED <<attrs, metaOk, performance_profile, read, AppVars>>

\* PerformanceProfile::update_system_capabilities called once more
ProfileRecompute ==
    /\ lastOp # "recompute"
    /\ performance_profile' = update_system_capabilities(performance_profile)
    /\ lastOp' = "recompute"
    /\ out' = None
    /\ access' = NoAccess
    /\ UNCHANGED <<attrs, metaOk, read, AppVars>>

\* image_processing::estimate_image_render_time(path, profile)
ProfileEstimate ==
    \E p \in Paths :
        /\ lastOp' = "estimate"
        /\ out' = [path |-> p,
                   value |-> estimate_image_render_time(p, performance_profile).value]
        /\ access' = [NoAccess EXCEPT
                         ![p] = estimate_image_render_time(p, performance_profile).opened]
        /\ UNCHANGED <<attrs, metaOk, performance_profile, read, AppVars>>

NextProfile ==
    \/ ProfileAddResult
    \/ ProfileAddOtherResult
    \/ ProfileEstimate
    \/ ProfileEstimateCharacteristics
    \/ ProfileRecompute

SpecProfile == InitProfile /\ [][NextProfile]_vars

\* ------------------------------------------------------------------------
\* Benchmark runs, repeated while the sync provider moves files between
\* local and on-demand
\* ------------------------------------------------------------------------

\* local, or on-demand
BenchAttrValues ==
    {0, FILE_ATTRIBUTE_UNPINNED + FILE_ATTRIBUTE_RECALL_ON_DATA_ACCESS}

\* the limits of the lowest and of the highest category, for one sample
\* and for as many as there are candidates
BenchLimits ==
    { l \in LimitsInputs :
        /\ l.max_samples \in {1, Len(Candidates)}
        /\ (l.max_file_size_mb = 2) <=> (l.max_megapixels = 4) }

InitBench ==
    /\ attrs \in [Paths -> BenchAttrValues]
    /\ metaOk = [p \in Paths |-> TRUE]
    /\ performance_profile = DefaultProfile
    /\ file_infos = <<>>
    /\ selected_image_index = None
    /\ show_slow_image_dialog = FALSE
    /\ pending_slow_image_path = None
    /\ show_download_dialog = FALSE
    /\ pending_download_file = None
    /\ lastOp = "new"
    /\ access = NoAccess
    /\ read = None
    /\ out = None
    /\ cache = EmptyCache

\* the sync provider evicts or hydrates a file between two runs
BenchSyncChange ==
    \E p \in Paths, a \in BenchAttrValues :
        /\ a # attrs[p]
        /\ attrs' = [attrs EXCEPT ![p] = a]
        /\ lastOp' = "sync"
        /\ access' = NoAccess
        /\ out' = None
        /\ UNCHANGED <<metaOk, performance_profile, read, AppVars>>

\* ImageViewerApp::run_benchmark
BenchRun ==
    \E limits \in BenchLimits, t \in Timings :
        /\ t.overhead = 0
        /\ performance_profile' =
               run_benchmark_safe(AppState, limits, t).performance_profile
        /\ access' = run_benchmark_safe(AppState, limits, t).access
        /\ lastOp' = "benchmark"
        /\ out' = [limits |-> limits, samples |-> select_samples(limits).samples]
        /\ UNCHANGED <<attrs, metaOk, read, AppVars>>

NextBench ==
    \/ BenchSyncChange
    \/ BenchRun

SpecBench == InitBench /\ [][NextBench]_vars

\* ------------------------------------------------------------------------
\* The machine score: the probe is run and scores are categorised
\* ------------------------------------------------------------------------

\* the scores categorised: the ends of every band, and the largest integer
\* TLC represents
ScoreInputs ==
    {0, 1, LowPowerMax, LowPowerMax + 1, ModerateMax, ModerateMax + 1,
     GoodMax, GoodMax + 1, HighMax, HighMax + 1, MaxFinalScore, 2147483647}

\* what the file system and the clock do during one run of the probe;
\* all times are in ms and 0 or multiples of 50
ProbeInputs ==
    [before : {"absent", "complete"},
     write : {"ok", "failed_open", "failed_partial"},
     reads : [1..5 -> BOOLEAN],
     read_ms : {0, 50, 250},
     rest_ms : {0, 50, 10000, 200000, 60000000}]

InitScore ==
    /\ attrs = [p \in Paths |-> 0]
    /\ metaOk = [p \in Paths |-> TRUE]
    /\ performance_profile = DefaultProfile
    /\ file_infos = <<>>
    /\ selected_image_index = None
    /\ show_slow_image_dialog = FALSE
    /\ pending_slow_image_path = None
    /\ show_download_dialog = FALSE
    /\ pending_download_file = None
    /\ lastOp = "new"
    /\ access = NoAccess
    /\ read = None
    /\ out = None
    /\ cache = EmptyCache

\* SystemPerformanceCategory::from_score(score)
ScoreCategory ==
    \E score \in ScoreInputs :
        /\ lastOp = "new"
        /\ lastOp' = "from_score"
        /\ out' = [score |-> score, value |-> from_score(score)]
        /\ UNCHANGED <<attrs, metaOk, performance_profile, access, read, AppVars>>

\* run_simple_cpu_benchmark()
RunProbe ==
    \E inp \in ProbeInputs :
        /\ lastOp = "new"
        /\ lastOp' = "run_probe"
        /\ out' = [inp |-> inp,
                   raw |-> run_simple_cpu_benchmark(inp).raw,
                   elapsed_ms |-> run_simple_cpu_benchmark(inp).elapsed_ms,
                   value |-> run_simple_cpu_benchmark(inp).value,
                   scratch |-> run_simple_cpu_benchmark(inp).scratch]
        /\ UNCHANGED <<attrs, metaOk, performance_profile, access, read, AppVars>>

NextScore ==
    \/ ScoreCategory
    \/ RunProbe

SpecScore == InitScore /\ [][NextScore]_vars

\* ------------------------------------------------------------------------
\* Properties
\* ------------------------------------------------------------------------

\* C1: during browsing a file's content is read only if, at the moment of
\* the read, the file is Local or the user confirmed the download dialog
\* for that file.
C1_ReadOnlyLocalOrConfirmed ==
    IsSome(read) =>
        \/ Unwrap(read).locality = "Local"
        \/ Unwrap(read).via = "download"

\* C2: for a file classified OnDemand the estimator returns None and makes
\* no header probe: it touches the file's metadata only.
C2_OnDemandEstimateIsNone ==
    (lastOp = "estimate" /\ get_file_locality_status(out.path) = "OnDemand") =>
        /\ out.value = None
        /\ access[out.path] = "meta"

C2_Witness ==
    /\ lastOp = "estimate"
    /\ get_file_locality_status(out.path) = "OnDemand"
    /\ performance_profile.benchmark_results # <<>>
    /\ out.value = None

\* C3: benchmark_image on an OnDemand file returns success = false with an
\* error message, zero decode, texture and total times, zero width, height
\* and megapixels, and does not open the file.
C3_OnDemandBenchmarkShortCircuits ==
    (lastOp = "benchmark" /\ get_file_locality_status(out.path) = "OnDemand") =>
        /\ ~out.value.success
        /\ out.value.error_message # None
        /\ out.value.decode_time_ms = Zero
        /\ out.value.texture_creation_time_ms = Zero
        /\ out.value.total_time_ms = Zero
        /\ out.value.characteristics.width = 0
        /\ out.value.characteristics.height = 0
        /\ out.value.characteristics.megapixels = Zero
        /\ access[out.path] = "meta"

\* C4: a file classified Unknown is not opened for a header probe by the
\* estimator, is not decoded by the benchmarker, and is not loaded by a
\* selection unless the user confirmed the download dialog.
C4_UnknownNeverTouched ==
    /\ \A p \in Paths :
           access[p] = "header" => get_file_locality_status(p) # "Unknown"
    /\ lastOp = "benchmark" =>
           \A p \in Paths :
               access[p] = "content" => get_file_locality_status(p) # "Unknown"
    /\ (IsSome(read) /\ Unwrap(read).locality = "Unknown") =>
           Unwrap(read).via = "download"

\* C5: select_samples returns at most max_samples paths, each Local, no
\* larger than max_file_size_mb and with no more pixels than max_megapixels;
\* the 3 MB candidate is excluded under a 2 MB limit; no candidate is decoded.
C5_SamplesAreSafe ==
    lastOp = "select_samples" =>
        /\ Len(out.value) <= out.limits.max_samples
        /\ \A i \in DOMAIN out.value :
               /\ get_file_locality_status(out.value[i]) = "Local"
               /\ FileLen(out.value[i]) <= out.limits.max_file_size_mb * BytesPerMb
               /\ Dimensions(out.value[i])[1] * Dimensions(out.value[i])[2]
                      <= out.limits.max_megapixels * PixelsPerMegapixel
        /\ out.limits.max_file_size_mb = 2 => PB \notin Range(out.value)
        /\ \A p \in Paths : access[p] # "content"

C5_Witness ==
    /\ lastOp = "select_samples"
    /\ out.limits.max_file_size_mb = 2
    /\ out.limits.max_megapixels = 64
    /\ get_file_locality_status(PB) = "Local"
    /\ out.value = <<PA, PC>>

\* the attribute words with the unpinned flag, and those with the
\* recall-on-data-access flag
UnpinnedWords ==
    { FILE_ATTRIBUTE_UNPINNED + r + o :
        r \in {0, FILE_ATTRIBUTE_RECALL_ON_DATA_ACCESS},
        o \in {0, FILE_ATTRIBUTE_RECALL_ON_OPEN} }

RecallWords ==
    { u + FILE_ATTRIBUTE_RECALL_ON_DATA_ACCESS + o :
        u \in {0, FILE_ATTRIBUTE_UNPINNED},
        o \in {0, FILE_ATTRIBUTE_RECALL_ON_OPEN} }

\* C6: the classifier returns OnDemand exactly when the metadata is readable
\* and both flags are set, Local exactly when it is readable and both are
\* clear, and Unknown in every other case.
C6_ClassifyTable ==
    lastOp = "classify" =>
        LET readable == metaOk[out.path]
            unpinned == attrs[out.path] \in UnpinnedWords
            recall == attrs[out.path] \in RecallWords
        IN  /\ out.value \in {"Local", "OnDemand", "Unknown"}
            /\ (out.value = "OnDemand") <=> (readable /\ unpinned /\ recall)
            /\ (out.value = "Local") <=> (readable /\ ~unpinned /\ ~recall)
            /\ (out.value = "Unknown") <=> (~readable \/ (unpinned # recall))

C6_Witness ==
    /\ lastOp = "classify"
    /\ metaOk[out.path]
    /\ attrs[out.path] = FILE_ATTRIBUTE_RECALL_ON_DATA_ACCESS + FILE_ATTRIBUTE_RECALL_ON_OPEN
    /\ out.value = "Unknown"

\* C7: every tracked record whose locality_status is not OnDemand has
\* estimated_download_size = None.
C7_SizeOnlyWhenOnDemand ==
    \A i \in DOMAIN file_infos :
        file_infos[i].locality_status # "OnDemand" =>
            file_infos[i].estimated_download_size = None

\* C8: a refresh leaves every record's locality_status equal to the
\* classifier's current result for its path, and leaves the number, order
\* and paths of the records and the selection unchanged.
C8_RefreshReclassifiesInPlace ==
    [][lastOp' = "refresh" =>
          /\ Len(file_infos') = Len(file_infos)
          /\ \A i \in DOMAIN file_infos :
                 /\ file_infos'[i].path = file_infos[i].path
                 /\ file_infos'[i].locality_status =
                        Classify(metaOk'[file_infos[i].path], attrs'[file_infos[i].path])
          /\ selected_image_index' = selected_image_index]_vars

C8_Witness ==
    /\ lastOp = "refresh"
    /\ selected_image_index # None
    /\ \E i \in DOMAIN file_infos :
           /\ file_infos[i].locality_status = "Unknown"
           /\ file_infos[i].estimated_download_size # None

\* C9: with an empty profile the estimator returns None for every path.
C9_EmptyProfileEstimateIsNone ==
    (lastOp = "estimate" /\ performance_profile.benchmark_results = <<>>) =>
        out.value = None

\* the characteristics of a 4.0 MP jpg
FourMegapixelJpg == ImageCharacteristics_new(PB, 2000, 2000, "jpg")

\* exactly one successful jpg result of 2.0 MP, decode 40 ms, texture 10 ms
ScenarioBRecorded ==
    /\ Len(performance_profile.benchmark_results) = 1
    /\ performance_profile.benchmark_results[1].success
    /\ performance_profile.benchmark_results[1].characteristics.format = "jpg"
    /\ performance_profile.benchmark_results[1].characteristics.megapixels = Rat(2, 1)
    /\ performance_profile.benchmark_results[1].decode_time_ms = Ms(40)
    /\ performance_profile.benchmark_results[1].texture_creation_time_ms = Ms(10)

\* C10 as stated: after one successful jpg result of 2.0 MP with decode 40 ms
\* and surface 10 ms, the estimate for a 4.0 MP jpg is 100 ms.
C10_Original ==
    ScenarioBRecorded =>
        estimate_render_time(performance_profile, FourMegapixelJpg) = Ms(100)

\* the successful results of a format in the list, and the rate they give
SuccessfulOf(format) ==
    SelectSeq(performance_profile.benchmark_results,
              LAMBDA r : r.success /\ r.characteristics.format = format)

ObservedRate(format) ==
    RDiv(RSum(Map(SuccessfulOf(format), TotalTime)),
         RSum(Map(SuccessfulOf(format), Megapixels)))

\* C10 amended: with that one result and a measured total time of 50 ms the
\* estimate for a 4.0 MP jpg is 100 ms; in general, for a format with
\* successful observations, the estimate is the format's total time over
\* the format's megapixels, times the target's megapixels.
C10_LinearInMegapixels ==
    /\ (ScenarioBRecorded
          /\ performance_profile.benchmark_results[1].total_time_ms = Ms(50)) =>
            estimate_render_time(performance_profile, FourMegapixelJpg) = Ms(100)
    /\ \A p \in Paths :
           LET target == ImageCharacteristics_new(p, Dimensions(p)[1],
                                                  Dimensions(p)[2], FormatOf(p))
           IN  SuccessfulOf(target.format) # <<>> =>
                   estimate_render_time(performance_profile, target)
                       = RMul(ObservedRate(target.format), target.megapixels)

C10_Witness ==
    /\ ScenarioBRecorded
    /\ performance_profile.benchmark_results[1].total_time_ms = Ms(50)
    /\ estimate_render_time(performance_profile, FourMegapixelJpg) = Ms(100)

\* C11: estimate_render_time returns 0 when the results list is empty;
\* otherwise the rate times the target's megapixels, the rate being the
\* target format's recorded rate if there is one and else the sum of the
\* decode and texture averages.
C11_EstimateByRate ==
    lastOp = "estimate_render_time" =>
        LET caps == performance_profile.system_capabilities
            c == out.characteristics
        IN  out.value =
              IF Len(performance_profile.benchmark_results) = 0 THEN Zero
              ELSE IF \E f \in DOMAIN caps.format_performance : f = c.format
              THEN RMul(caps.format_performance[c.format], c.megapixels)
              ELSE RMul(RAdd(caps.avg_decode_time_per_mp,
                             caps.avg_texture_time_per_mp), c.megapixels)

C11_Witness ==
    /\ lastOp = "estimate_render_time"
    /\ performance_profile.benchmark_results # <<>>
    /\ out.characteristics.format = "bmp"
    /\ "jpg" \in DOMAIN performance_profile.system_capabilities.format_performance
    /\ RGt(out.value, Zero)

\* the statistics of a list of results, from its successful members alone
SuccessfulIn(results) ==
    {i \in DOMAIN results : results[i].success}

RECURSIVE SumOver(_, _, _)
SumOver(results, indices, field) ==
    IF indices = {} THEN Zero
    ELSE LET i == CHOOSE j \in indices : TRUE
         IN  RAdd(results[i][field], SumOver(results, indices \ {i}, field))

RECURSIVE MegapixelsOver(_, _)
MegapixelsOver(results, indices) ==
    IF indices = {} THEN Zero
    ELSE LET i == CHOOSE j \in indices : TRUE
         IN  RAdd(results[i].characteristics.megapixels,
                  MegapixelsOver(results, indices \ {i}))

FoldedCapabilities(results) ==
    LET ok == SuccessfulIn(results)
        mp == MegapixelsOver(results, ok)
        OfFormat(f) == {i \in ok : results[i].characteristics.format = f}
    IN  [max_successful_megapixels |->
             IF ok = {} THEN Zero
             ELSE LET m == CHOOSE i \in ok : \A j \in ok :
                               RLe(results[j].characteristics.megapixels,
                                   results[i].characteristics.megapixels)
                  IN  results[m].characteristics.megapixels,
         avg_decode_time_per_mp |->
             IF ok = {} THEN Zero ELSE RDiv(SumOver(results, ok, "decode_time_ms"), mp),
         avg_texture_time_per_mp |->
             IF ok = {} THEN Zero
             ELSE RDiv(SumOver(results, ok, "texture_creation_time_ms"), mp),
         format_performance |->
             [f \in {results[i].characteristics.format : i \in ok} |->
                  RDiv(SumOver(results, OfFormat(f), "total_time_ms"),
                       MegapixelsOver(results, OfFormat(f)))]]

\* C12: after every add_benchmark_result on a profile that started empty,
\* the capabilities are the statistics of the successful results in the
\* list: the largest megapixels, total decode time over total megapixels,
\* total texture time over total megapixels, and per format the format's
\* total time over the format's megapixels.
C12_CapabilitiesAreTheFold ==
    lastOp = "add_result" =>
        performance_profile.system_capabilities
            = FoldedCapabilities(performance_profile.benchmark_results)

C12_Witness ==
    /\ lastOp = "add_result"
    /\ Len(performance_profile.benchmark_results) = 2
    /\ ~performance_profile.benchmark_results[1].success
    /\ performance_profile.benchmark_results[2].success
    /\ DOMAIN performance_profile.system_capabilities.format_performance = {"png"}

\* C14: update_system_capabilities called again on the list it was last
\* computed from changes nothing, and a further call changes nothing either.
C14_RecomputeIsIdempotent ==
    [][lastOp' = "recompute" =>
          /\ performance_profile' = performance_profile
          /\ update_system_capabilities(performance_profile') = performance_profile'
      ]_vars

C14_Witness ==
    /\ lastOp = "recompute"
    /\ Len(performance_profile.benchmark_results) = 2
    /\ \A i \in 1..2 : performance_profile.benchmark_results[i].success
    /\ DOMAIN performance_profile.system_capabilities.format_performance
           = {"jpg", "png"}

\* C13: after a benchmark run the results list, the capabilities and so
\* every estimate come from the results of that run alone, also when the
\* run recorded no successful result or no result at all.
C13_RerunLeavesNothingStale ==
    lastOp = "benchmark" =>
        /\ Len(performance_profile.benchmark_results) <= Len(out.samples)
        /\ performance_profile.system_capabilities
               = FoldedCapabilities(performance_profile.benchmark_results)

CategoryRank(category) ==
    CASE category = "LowPower" -> 1
      [] category = "Moderate" -> 2
      [] category = "Good" -> 3
      [] category = "High" -> 4
      [] category = "Excellent" -> 5

C17_ScoreIsClamped ==
    lastOp = "run_probe" =>
        LET e == IF out.elapsed_ms < 1 THEN 1 ELSE out.elapsed_ms
        IN  /\ 50 <= out.value /\ out.value <= 15000
            /\ e = 1 =>
                   out.value = IF out.raw >= 300 THEN 15000
                               ELSE IF out.raw < 1 THEN 50 ELSE out.raw * 50
            /\ e > 1 =>
                   LET unit == e \div 50
                       scaled == out.raw \div unit
                   IN  /\ e = unit * 50
                       /\ out.value = IF scaled > 15000 THEN 15000
                                      ELSE IF scaled < 50 THEN 50 ELSE scaled

C17_Witness ==
    /\ lastOp = "run_probe"
    /\ out.elapsed_ms = 60000000
    /\ out.inp.write = "failed_partial"
    /\ out.value = 50

C19_DecodeFailureIsReported ==
    (lastOp = "benchmark"
       /\ get_file_locality_status(out.path) = "Local"
       /\ ~Decodable(out.path)) =>
        /\ ~out.value.success
        /\ out.value.error_message = Some("Failed to decode image")
        /\ out.value.texture_creation_time_ms = Zero
        /\ out.value.characteristics.width = 0
        /\ out.value.characteristics.height = 0
        /\ out.value.characteristics.megapixels = Zero

C19_Witness ==
    /\ lastOp = "benchmark"
    /\ out.path = PC
    /\ get_file_locality_status(PC) = "Local"
    /\ out.value.decode_time_ms = Ms(1990)
    /\ out.value.error_message = Some("Failed to decode image")

PredictedSlow(path) ==
    LET estimate == estimate_image_render_time(path, performance_profile).value
    IN  /\ performance_profile.benchmark_results # <<>>
        /\ estimate # None
        /\ estimate[1][1] * 1 > benchmark_threshold_ms * estimate[1][2]

\* C22: selecting an image tracked as Local opens the slow-image dialog for
\* it, and does not load it, exactly when the profile holds a result and
\* the estimate is strictly above the threshold; otherwise (an empty
\* profile included) it is loaded at once.  From the open dialog Load
\* Anyway loads the pending image and closing the dialog loads nothing.
C22_SlowImageIsConfirmedFirst ==
    /\ \A i \in DOMAIN file_infos, fetch \in FetchOutcomes :
           LET path == file_infos[i].path
               after == load_selected_image(
                            [AppState EXCEPT !.selected_image_index = Some(i - 1)],
                            fetch)
           IN  file_infos[i].locality_status = "Local" =>
                   /\ PredictedSlow(path) =>
                          /\ after.show_slow_image_dialog
                          /\ after.pending_slow_image_path = Some(path)
                          /\ after.read = None
                   /\ ~PredictedSlow(path) =>
                          /\ after.read # None
                          /\ after.read[1].path = path
                          /\ after.pending_slow_image_path = pending_slow_image_path
                          /\ after.show_slow_image_dialog = show_slow_image_dialog
    /\ show_slow_image_dialog =>
           \A fetch \in FetchOutcomes :
               LET closed == handle_slow_image_dialog(AppState, "close", fetch)
                   confirmed == handle_slow_image_dialog(AppState, "load_anyway", fetch)
               IN  /\ closed.read = None
                   /\ ~closed.show_slow_image_dialog
                   /\ closed.pending_slow_image_path = None
                   /\ ~confirmed.show_slow_image_dialog
                   /\ pending_slow_image_path # None =>
                          /\ confirmed.read # None
                          /\ confirmed.read[1].path = pending_slow_image_path[1]
                          /\ confirmed.read[1].via = "slow"

C22_Witness ==
    /\ lastOp = "slow_dialog"
    /\ read # None
    /\ read[1].via = "slow"
    /\ read[1].loaded
    /\ performance_profile.benchmark_results # <<>>
    /\ ~show_slow_image_dialog

\* ------------------------------------------------------------------
\* settings.rs: filename truncation and the effective size limit.
\* A string is the sequence of its bytes.

Utf8Ellipsis == <<"e2", "80", "a6">>

Filenames ==
    {<<"f", "i", "l", "e", "n", "a", "m", "e", ".", "t", "x", "t">>,
     <<"v", "e", "r", "y", "_", "l", "o", "n", "g", "_", "f", "i", "l", "e", "n", "a", "m", "e", ".", "t", "x", "t">>,
     <<"l", "o", "n", "g", "_", "n", "a", "m", "e", "_", "n", "o", "_", "e", "x", "t">>,
     <<"a", ".", "j", "p", "e", "g">>,
     <<".", "h", "i", "d", "d", "e", "n", "_", "f", "i", "l", "e">>}

EllipsisInputs == {Utf8Ellipsis, <<".", ".", ".">>, <<"~">>}

MaxLengthInput == 23

SettingsInputs ==
    [truncate_long_filenames : BOOLEAN,
     max_filename_length : 0..MaxLengthInput,
     truncation_style : {"None", "Ellipsis", "FadeEnd"},
     ellipsis_char : EllipsisInputs]

\* &s[from..to]
Slice(s, from, to) == SubSeq(s, from + 1, to)

\* str::rfind(c): the index of the last occurrence
rfind(s, c) ==
    IF \E i \in DOMAIN s : s[i] = c
    THEN Some((CHOOSE i \in DOMAIN s :
                   s[i] = c /\ \A j \in DOMAIN s : s[j] = c => j <= i) - 1)
    ELSE None

saturating_sub(a, b) == IF a > b THEN a - b ELSE 0

\* settings::truncate_filename_with_ellipsis
truncate_filename_with_ellipsis(filename, max_length, ellipsis_char) ==
    IF Len(filename) <= max_length THEN filename
    ELSE
      LET found == rfind(filename, ".")
          extension_start == IF found = None THEN Len(filename) ELSE Unwrap(found)
          name_part == Slice(filename, 0, extension_start)
          extension_part == Slice(filename, extension_start, Len(filename))
          available_for_name ==
              saturating_sub(max_length, Len(ellipsis_char) + Len(extension_part))
          start_chars == (available_for_name + 1) \div 2
          end_chars == available_for_name - start_chars
          start_part ==
              Slice(name_part, 0,
                    IF start_chars < Len(name_part) THEN start_chars
                    ELSE Len(name_part))
          end_part ==
              IF end_chars > 0 /\ end_chars < Len(name_part)
              THEN Slice(name_part, Len(name_part) - end_chars, Len(name_part))
              ELSE <<>>
      IN  IF available_for_name < 3
          THEN Slice(filename, 0, saturating_sub(max_length, Len(ellipsis_char)))
                   \o ellipsis_char
          ELSE IF Len(name_part) <= available_for_name THEN filename
          ELSE start_part \o ellipsis_char \o end_part \o extension_part

\* ImageLoadingSettings::truncate_filename
truncate_filename(settings, filename) ==
    IF ~settings.truncate_long_filenames
       \/ Len(filename) <= settings.max_filename_length
    THEN filename
    ELSE IF settings.truncation_style = "None" THEN filename
    ELSE truncate_filename_with_ellipsis(filename, settings.max_filename_length,
                                         settings.ellipsis_char)

KbPerMb == 1024

MaxDynamicMaxFileSizeMb == 2048

\* the memory the system reports, in the unit the code calls KB
MemoryInputs == {0, 1, 1024, 60000, 100000, 4194304, 16777216, 100000000}

ManualLimitInputs == {None, Some(0), Some(200), Some(5000)}

\* calculate_dynamic_max_file_size_mb without the bounds
calculate_dynamic_max_file_size_mb_unbounded(total_memory_kb, available_memory_kb) ==
    LET usable_memory_kb ==
            IF available_memory_kb > 0 /\ available_memory_kb < total_memory_kb
            THEN available_memory_kb
            ELSE (total_memory_kb * 7) \div 10
    IN  ((usable_memory_kb * 9) \div 10) \div KbPerMb

\* ImageLoadingSettings::calculate_dynamic_max_file_size_mb, for the
\* memory figures sysinfo reports
calculate_dynamic_max_file_size_mb(total_memory_kb, available_memory_kb) ==
    LET usable_memory_kb ==
            IF available_memory_kb > 0 /\ available_memory_kb < total_memory_kb
            THEN available_memory_kb
            ELSE (total_memory_kb * 7) \div 10
        safe_memory_kb == (usable_memory_kb * 9) \div 10
        safe_memory_mb == safe_memory_kb \div KbPerMb
    IN  IF safe_memory_mb < MinDynamicMaxFileSizeMb THEN MinDynamicMaxFileSizeMb
        ELSE IF safe_memory_mb > MaxDynamicMaxFileSizeMb THEN MaxDynamicMaxFileSizeMb
        ELSE safe_memory_mb

\* ImageLoadingSettings::get_effective_max_file_size_mb for a settings
\* value max_file_size_mb and the memory figures of the machine
effective_max_file_size_mb(max_file_size_mb, total_memory_kb, available_memory_kb) ==
    IF IsSome(max_file_size_mb) THEN max_file_size_mb
    ELSE Some(calculate_dynamic_max_file_size_mb(total_memory_kb,
                                                 available_memory_kb))

InitSettings ==
    /\ attrs = [p \in Paths |-> 0]
    /\ metaOk = [p \in Paths |-> TRUE]
    /\ performance_profile = DefaultProfile
    /\ file_infos = <<>>
    /\ selected_image_index = None
    /\ show_slow_image_dialog = FALSE
    /\ pending_slow_image_path = None
    /\ show_download_dialog = FALSE
    /\ pending_download_file = None
    /\ lastOp = "new"
    /\ access = NoAccess
    /\ read = None
    /\ out = None
    /\ cache = EmptyCache

TruncateFilename ==
    \E settings \in SettingsInputs, filename \in Filenames :
        /\ lastOp = "new"
        /\ lastOp' = "truncate_filename"
        /\ out' = [settings |-> settings, filename |-> filename,
                   value |-> truncate_filename(settings, filename)]
        /\ UNCHANGED <<attrs, metaOk, performance_profile, access, read, AppVars>>

EffectiveMaxFileSize ==
    \E max_file_size_mb \in ManualLimitInputs,
       total_memory_kb \in MemoryInputs, available_memory_kb \in MemoryInputs :
        /\ lastOp = "new"
        /\ lastOp' = "effective_max_file_size"
        /\ out' = [max_file_size_mb |-> max_file_size_mb,
                   total_memory_kb |-> total_memory_kb,
                   available_memory_kb |-> available_memory_kb,
                   value |-> effective_max_file_size_mb(
                                 max_file_size_mb, total_memory_kb,
                                 available_memory_kb)]
        /\ UNCHANGED <<attrs, metaOk, performance_profile, access, read, AppVars>>

NextSettings ==
    \/ TruncateFilename
    \/ EffectiveMaxFileSize

SpecSettings == InitSettings /\ [][NextSettings]_vars

Contains(s, sub) ==
    \E i \in 0..(Len(s) - Len(sub)) : SubSeq(s, i + 1, i + Len(sub)) = sub

EndsWith(s, suffix) ==
    /\ Len(suffix) <= Len(s)
    /\ SubSeq(s, Len(s) - Len(suffix) + 1, Len(s)) = suffix

\* the extension of a filename, with its dot; empty when there is no dot
ExtensionOf(filename) ==
    IF rfind(filename, ".") = None THEN <<>>
    ELSE Slice(filename, Unwrap(rfind(filename, ".")), Len(filename))

\* C23: a filename longer than max_filename_length, truncated with style
\* Ellipsis or FadeEnd, comes back no longer than max_filename_length, with
\* the ellipsis in it, starting as the original starts and ending with the
\* original extension; with truncation disabled or a filename that is short
\* enough it comes back unchanged.
C23_TruncationKeepsShape ==
    lastOp = "truncate_filename" =>
        LET settings == out.settings
            filename == out.filename
            long == Len(filename) > settings.max_filename_length
        IN  /\ (~settings.truncate_long_filenames \/ ~long) => out.value = filename
            /\ (/\ settings.truncate_long_filenames
                /\ long
                /\ settings.truncation_style \in {"Ellipsis", "FadeEnd"}) =>
                   /\ Len(out.value) <= settings.max_filename_length
                   /\ Contains(out.value, settings.ellipsis_char)
                   /\ out.value # <<>>
                   /\ out.value[1] = filename[1]
                   /\ EndsWith(out.value, ExtensionOf(filename))

C25_ClassifiersAgreeOnFetchRisk ==
    (lastOp = "classify" /\ out.value = "OnDemand") =>
        onedrive_will_trigger_download(OneDriveFileInfo_new(out.path))

Categories == {"LowPower", "Moderate", "Good", "High", "Excellent"}

\* the categories the probe can return within 10 s of wall time
CategoriesWithinTenSeconds ==
    {from_score(run_simple_cpu_benchmark(inp).value) :
        inp \in {i \in ProbeInputs :
                    /\ run_simple_cpu_benchmark(i).elapsed_ms >= 1
                    /\ run_simple_cpu_benchmark(i).elapsed_ms <= 10000}}

\* C26: for each of the five categories some run of the probe that takes
\* between 1 ms and 10 s, with some storage outcome, returns a score inside
\* that category's band.
C26_EveryCategoryHasARun ==
    lastOp = "run_probe" => CategoriesWithinTenSeconds = Categories

DialogsMatchPending ==
    /\ show_slow_image_dialog <=> pending_slow_image_path # None
    /\ show_download_dialog <=> pending_download_file # None

ConfirmationLoadsPending ==
    /\ (lastOp' = "slow_dialog" /\ read' # None) =>
           /\ read'[1].via = "slow"
           /\ pending_slow_image_path = Some(read'[1].path)
    /\ (lastOp' = "download_dialog" /\ read' # None) =>
           /\ read'[1].via = "download"
           /\ pending_download_file # None
           /\ pending_download_file[1].path = read'[1].path

\* C28: at the end of every frame each dialog is shown exactly when its
\* pending file is set, and a confirmation reads exactly the file its
\* dialog was opened for.
C28_DialogsAndPendingAgree ==
    []DialogsMatchPending /\ [][ConfirmationLoadsPending]_vars

C28_Witness ==
    /\ lastOp = "download_dialog"
    /\ read # None
    /\ read[1].via = "download"
    /\ show_slow_image_dialog
    /\ pending_slow_image_path # None
    /\ pending_slow_image_path[1] # read[1].path
    /\ ~show_download_dialog

\* ------------------------------------------------------------------
\* Keyboard navigation over file lists of every length

\* the list the constructor found: the first n files of the directory
InitNav ==
    /\ attrs \in [Paths -> LocalityAttrValues]
    /\ attrs[PC] = 0
    /\ metaOk = [p \in Paths |-> TRUE]
    /\ performance_profile = DefaultProfile
    /\ file_infos \in {Map(SubSeq(Tracked, 1, n), FileInfo_new) : n \in 0..Len(Tracked)}
    /\ selected_image_index = None
    /\ show_slow_image_dialog = FALSE
    /\ pending_slow_image_path = None
    /\ show_download_dialog = FALSE
    /\ pending_download_file = None
    /\ lastOp = "new"
    /\ access = NoAccess
    /\ read = None
    /\ out = None
    /\ cache = EmptyCache

NextNav ==
    \/ SyncChange
    \/ ClickFile
    \/ KeyboardNav
    \/ DownloadDialog

SpecNav == InitNav /\ [][NextNav]_vars

\* the selection after the keys of one frame
AfterKeys(up, down) ==
    handle_keyboard_nav(AppState, up, down, "failed").selected_image_index

\* C29: the selection is None or an index below the number of tracked
\* files (so a selection implies a non-empty list and len - 1 never
\* underflows); ArrowUp at index 0 and ArrowDown at the last index leave it
\* unchanged, an empty list included; with no selection ArrowUp selects the
\* last file and ArrowDown the first.
C29_SelectionStaysInRange ==
    LET len == Len(file_infos)
    IN  /\ selected_image_index # None =>
               /\ selected_image_index[1] >= 0
               /\ selected_image_index[1] < len
        /\ selected_image_index = Some(0) => AfterKeys(TRUE, FALSE) = Some(0)
        /\ (len > 0 /\ selected_image_index = Some(len - 1)) =>
               AfterKeys(FALSE, TRUE) = Some(len - 1)
        /\ (len > 0 /\ selected_image_index = None) =>
               /\ AfterKeys(TRUE, FALSE) = Some(len - 1)
               /\ AfterKeys(FALSE, TRUE) = Some(0)
        /\ len = 0 =>
               /\ selected_image_index = None
               /\ AfterKeys(TRUE, FALSE) = None
               /\ AfterKeys(FALSE, TRUE) = None
               /\ AfterKeys(TRUE, TRUE) = None

C29_Witness ==
    /\ lastOp = "select"
    /\ Len(file_infos) = 2
    /\ selected_image_index = Some(1)
    /\ AfterKeys(FALSE, TRUE) = Some(1)
    /\ read # None
    /\ read[1].path = file_infos[2].path

\* ------------------------------------------------------------------
\* icons.rs: the icon cache.  A string is the sequence of the pieces that
\* its underscores separate, so "failed_16_0_0" is <<"failed", "16", "0", "0">>.

EMBEDDED_ICONS == {<<"cloud">>, <<"download">>}

IconNames == {<<"cloud">>, <<"nope">>, <<"failed">>, <<"16", "0", "0">>}

DefaultIconSize == 16

MaxIconSize == 1024

\* requested sizes: whole numbers of pixels, one of them out of range
IconSizes == {16, 2000}

\* egui::Color32 BLACK, BLUE and LIGHT_BLUE
IconColors ==
    {[r |-> 0, g |-> 0, b |-> 0], [r |-> 0, g |-> 0, b |-> 255],
     [r |-> 173, g |-> 216, b |-> 230]}

MaxCacheEntries == 2

\* the size render_svg_to_texture draws at
RenderedSize(size) ==
    IF size <= 0 \/ size > MaxIconSize THEN DefaultIconSize ELSE size

\* SvgIcons::load_icon: the texture, described by what was drawn
load_icon(icon_name, size, color) ==
    IF icon_name \notin EMBEDDED_ICONS THEN None
    ELSE Some([name |-> icon_name, size |-> RenderedSize(size), color |-> color])

\* the 1x1 transparent texture stored for a name that failed
Placeholder ==
    [name |-> <<"placeholder">>, size |-> 1, color |-> [r |-> 0, g |-> 0, b |-> 0]]

\* format!("{}_{}_{}_{}", icon, size as u32, color.r(), color.g())
CacheKey(icon, size, color) ==
    icon \o <<ToString(size), ToString(color.r), ToString(color.g)>>

\* format!("failed_{}", icon)
FailedKey(icon) == <<"failed">> \o icon

contains_key(c, key) == \E e \in c : e.key = key

CacheGet(c, key) ==
    IF contains_key(c, key)
    THEN Some((CHOOSE e \in c : e.key = key).texture)
    ELSE None

CacheInsert(c, key, texture) ==
    {e \in c : e.key # key} \cup {[key |-> key, texture |-> texture]}

\* IconRenderer::get_icon: the cache afterwards and the value returned
get_icon(c, icon, size, color) ==
    LET cache_key == CacheKey(icon, size, color)
        loaded == load_icon(icon, size, color)
        after ==
            IF contains_key(c, cache_key) THEN c
            ELSE IF loaded # None THEN CacheInsert(c, cache_key, Unwrap(loaded))
            ELSE IF ~contains_key(c, FailedKey(icon))
            THEN CacheInsert(c, FailedKey(icon), Placeholder)
            ELSE c
    IN  [cache |-> after, value |-> CacheGet(after, cache_key)]

InitIcons ==
    /\ attrs = [p \in Paths |-> 0]
    /\ metaOk = [p \in Paths |-> TRUE]
    /\ performance_profile = DefaultProfile
    /\ file_infos = <<>>
    /\ selected_image_index = None
    /\ show_slow_image_dialog = FALSE
    /\ pending_slow_image_path = None
    /\ show_download_dialog = FALSE
    /\ pending_download_file = None
    /\ lastOp = "new"
    /\ access = NoAccess
    /\ read = None
    /\ out = None
    /\ cache = EmptyCache

GetIcon ==
    \E icon \in IconNames, size \in IconSizes, color \in IconColors :
        /\ Cardinality(cache) < MaxCacheEntries
        /\ cache' = get_icon(cache, icon, size, color).cache
        /\ lastOp' = "get_icon"
        /\ out' = [icon |-> icon, size |-> size, color |-> color,
                   value |-> get_icon(cache, icon, size, color).value]
        /\ UNCHANGED <<attrs, metaOk, performance_profile, access, read,
                       file_infos, selected_image_index, show_slow_image_dialog,
                       pending_slow_image_path, show_download_dialog,
                       pending_download_file>>

NextIcons == GetIcon

SpecIcons == InitIcons /\ [][NextIcons]_vars

\* C30: the texture get_icon returns was drawn for the icon name, the
\* integer size and the color of the request, and a name that fails to
\* load yields None on every call.
C30_CacheAnswersTheRequest ==
    lastOp = "get_icon" =>
        /\ out.value # None =>
               /\ out.value[1].name = out.icon
               /\ out.value[1].size = RenderedSize(out.size)
               /\ out.value[1].color = out.color
        /\ load_icon(out.icon, out.size, out.color) = None => out.value = None

====
